---- MODULE Spec2Model ----
(***************************************************************************)
(* Model of build-env's BuildEnv (src/src/lib.rs): the fallback chain of   *)
(* BuildEnv::var, the text conversion of BuildEnv::var_str and the usage   *)
(* record used_env_vars with its "cargo:rerun-if-env-changed=" hints.      *)
(*                                                                         *)
(* An OsString / String is a sequence of bytes (Unix representation).      *)
(* The byte strings used are ASCII plus the byte 255, which never occurs   *)
(* in UTF-8; over these bytes a string is valid UTF-8 iff it is all ASCII. *)
(***************************************************************************)
EXTENDS Integers, Sequences, FiniteSets, TLC

VARIABLES
    env,            \* the process environment: a function name -> raw value
    pc,             \* "start" | "ready" | "failed" (from_env Err) | "panicked"
    built,          \* which constructor ran and what it returned
    target,         \* BuildEnv.target
    host,           \* BuildEnv.host
    used_env_vars,  \* BuildEnv.used_env_vars: BTreeSet as its ascending sequence
    stdout,         \* the lines printed so far
    hist            \* the calls made on the BuildEnv so far, with their results

vars == <<env, pc, built, target, host, used_env_vars, stdout, hist>>

----------------------------------------------------------------------------
(* Bounds *)

MaxCalls == 3       \* number of method calls explored on one BuildEnv

----------------------------------------------------------------------------
(* Byte strings *)

s_CC     == <<67, 67>>                     \* "CC"
s_LD     == <<76, 68>>                     \* "LD"
s_HOST   == <<72, 79, 83, 84>>             \* "HOST"
s_TARGET == <<84, 65, 82, 71, 69, 84>>     \* "TARGET"
s_us     == <<95>>                         \* "_"
s_x_y    == <<120, 45, 121>>               \* "x-y", a triple with a hyphen
s_val    == <<118>>                        \* "v", some value
s_notutf == <<255>>                        \* a byte string that is not UTF-8

Range(s) == {s[i] : i \in DOMAIN s}

\* OsStr::to_str / OsString::into_string succeed iff the bytes are UTF-8
IsUtf8(s) == \A i \in DOMAIN s : s[i] < 128

\* Ord for OsString: bytewise lexicographic, a proper prefix sorts first
Less(x, y) ==
    \E i \in 1..(Len(x) + 1) :
        /\ i <= Len(y)
        /\ \A j \in 1..(i - 1) : x[j] = y[j]
        /\ (i = Len(x) + 1 \/ x[i] < y[i])

\* str::replace("-", "_")
replace(s) == [i \in DOMAIN s |-> IF s[i] = 45 THEN 95 ELSE s[i]]

\* variant: a Vec that keeps insertion order (no duplicate)
BTreeInsert_as_push(set, x) ==
    IF x \in Range(set) THEN set ELSE Append(set, x)

\* variant: ascending order kept, duplicates kept too
BTreeInsert_as_multiset(set, x) ==
    LET k == Cardinality({i \in DOMAIN set : Less(set[i], x)})
    IN  SubSeq(set, 1, k) \o <<x>> \o SubSeq(set, k + 1, Len(set))

\* BTreeSet::insert: no duplicate, ascending order kept
BTreeInsert(set, x) ==
    IF x \in Range(set) THEN set
    ELSE LET k == Cardinality({i \in DOMAIN set : Less(set[i], x)})
         IN  SubSeq(set, 1, k) \o <<x>> \o SubSeq(set, k + 1, Len(set))

----------------------------------------------------------------------------
(* Values returned to the caller *)

None       == [tag |-> "None", val |-> <<>>, key |-> <<>>]
Some(v)    == [tag |-> "Some", val |-> v, key |-> <<>>]
SomeOk(s)  == [tag |-> "SomeOk", val |-> s, key |-> <<>>]
\* Some(Err(VarError { key, kind: NotString(raw) }))
SomeErrNotString(k, raw) == [tag |-> "SomeErrNotString", val |-> raw, key |-> k]
\* Err(VarError { key, kind: RequiredEnvMissing(NotPresent | NotUnicode(raw)) })
ErrRequiredEnvMissing(k, why, raw) ==
    [tag |-> "ErrRequiredEnvMissing", val |-> raw, key |-> k, why |-> why]
Unit       == [tag |-> "Unit", val |-> <<>>, key |-> <<>>]
Iter(names) == [tag |-> "Iter", val |-> names, key |-> <<>>]
Panic      == [tag |-> "Panic", val |-> <<>>, key |-> <<>>]

\* env::var_os
var_os(e, key) == IF key \in DOMAIN e THEN Some(e[key]) ELSE None

\* println!("cargo:rerun-if-env-changed={}", name)
Line(name) == <<"cargo:rerun-if-env-changed=", name>>

----------------------------------------------------------------------------
(* The methods, as functions of the mutable part of the receiver           *)
(*   st = [used_env_vars, stdout, panicked]                                *)

St(u, o) == [used_env_vars |-> u, stdout |-> o, panicked |-> FALSE]

\* variant: the hint is printed only for a name not yet recorded
mark_used_as_print_once(st, v) ==
    IF ~IsUtf8(v)
    THEN [st EXCEPT !.panicked = TRUE]
    ELSE IF v \in Range(st.used_env_vars) THEN st
    ELSE [st EXCEPT !.stdout = Append(@, Line(v)),
                    !.used_env_vars = BTreeInsert(@, v)]

\* variant: the name is inserted before it is rendered
mark_used_as_insert_first(st, v) ==
    IF ~IsUtf8(v)
    THEN [st EXCEPT !.used_env_vars = BTreeInsert(@, v), !.panicked = TRUE]
    ELSE [st EXCEPT !.stdout = Append(@, Line(v)),
                    !.used_env_vars = BTreeInsert(@, v)]

\* variant: the name is rendered lossily, without the UTF-8 check
mark_used_as_lossy(st, v) ==
    [st EXCEPT !.stdout = Append(@, Line(v)),
               !.used_env_vars = BTreeInsert(@, v)]

\* mark_used: render the name (panic if not UTF-8), print the hint, insert
mark_used(st, v) ==
    IF ~IsUtf8(v)
    THEN [st EXCEPT !.panicked = TRUE]
    ELSE [st EXCEPT !.stdout = Append(@, Line(v)),
                    !.used_env_vars = BTreeInsert(@, v)]

\* variant: only a variable that was found is marked used
env_one_as_found_only(st, e, v) ==
    LET got == var_os(e, v)
        st2 == IF got.tag = "Some" THEN mark_used(st, v) ELSE st
    IN  [st |-> st2, v |-> IF st2.panicked THEN Panic ELSE got]

\* env_one: read the variable, then mark it used, found or not
env_one(st, e, v) ==
    LET got == var_os(e, v)
        st2 == mark_used(st, v)
    IN  [st |-> st2, v |-> IF st2.panicked THEN Panic ELSE got]

\* Option::or_else(|| self.env_one(name)) on the result so far
or_else(r, e, name) ==
    IF r.st.panicked \/ r.v.tag = "Some" THEN r ELSE env_one(r.st, e, name)

\* variant: the role prefix is always "HOST"
kind_as_always_host(h, t) == s_HOST

\* let kind = if host == target { "HOST" } else { "TARGET" };
kind(h, t) == IF h = t THEN s_HOST ELSE s_TARGET

\* variant: the plain name is tried before the role-prefixed one
var_as_plain_before_role(st, e, h, t, var_base) ==
    LET target_u == replace(t)
        a0 == var_base \o s_us
        a  == a0 \o t
        b  == a0 \o target_u
        c  == kind(h, t) \o s_us \o var_base
    IN  or_else(or_else(or_else(env_one(st, e, a), e, b), e, var_base), e, c)

\* BuildEnv::var
var(st, e, h, t, var_base) ==
    LET target_u == replace(t)
        a0 == var_base \o s_us
        a  == a0 \o t
        b  == a0 \o target_u
        c  == kind(h, t) \o s_us \o var_base
    IN  or_else(or_else(or_else(env_one(st, e, a), e, b), e, c), e, var_base)

\* variant: a value that is not UTF-8 is reported as absent
var_str_as_err_is_none(st, e, h, t, var_base) ==
    LET r == var(st, e, h, t, var_base)
    IN  IF r.st.panicked THEN r
        ELSE IF r.v.tag = "Some" /\ IsUtf8(r.v.val)
        THEN [st |-> r.st, v |-> SomeOk(r.v.val)]
        ELSE [st |-> r.st, v |-> None]

\* BuildEnv::var_str
var_str(st, e, h, t, var_base) ==
    LET r == var(st, e, h, t, var_base)
    IN  IF r.st.panicked THEN r
        ELSE IF r.v.tag = "Some"
        THEN [st |-> r.st,
              v  |-> IF IsUtf8(r.v.val) THEN SomeOk(r.v.val)
                     ELSE SomeErrNotString(var_base, r.v.val)]
        ELSE [st |-> r.st, v |-> None]

\* BuildEnv::cargo_print_used_env_vars: one line per name, in set order;
\* to_str().unwrap() panics at the first name that is not UTF-8
cargo_print_used_env_vars(st) ==
    LET bad == {i \in DOMAIN st.used_env_vars : ~IsUtf8(st.used_env_vars[i])}
        n   == IF bad = {} THEN Len(st.used_env_vars)
               ELSE (CHOOSE i \in bad : \A j \in bad : i <= j) - 1
    IN  [st EXCEPT !.stdout = @ \o [i \in 1..n |-> Line(st.used_env_vars[i])],
                   !.panicked = (bad # {})]

\* required_env_var: env::var(key) mapped to RequiredEnvMissing
required_env_var(e, key) ==
    IF key \notin DOMAIN e THEN ErrRequiredEnvMissing(key, "NotPresent", <<>>)
    ELSE IF ~IsUtf8(e[key]) THEN ErrRequiredEnvMissing(key, "NotUnicode", e[key])
    ELSE SomeOk(e[key])

\* variant: TARGET and HOST are recorded as used
from_env_as_marking(e) ==
    LET t == required_env_var(e, s_TARGET)
        h == required_env_var(e, s_HOST)
    IN  IF t.tag # "SomeOk" THEN [ok |-> FALSE, err |-> t]
        ELSE IF h.tag # "SomeOk" THEN [ok |-> FALSE, err |-> h]
        ELSE [ok |-> TRUE, target |-> t.val, host |-> h.val,
              used_env_vars |-> <<s_HOST, s_TARGET>>]

\* BuildEnv::from_env: TARGET first, then HOST; neither is marked used
from_env(e) ==
    LET t == required_env_var(e, s_TARGET)
        h == required_env_var(e, s_HOST)
    IN  IF t.tag # "SomeOk" THEN [ok |-> FALSE, err |-> t]
        ELSE IF h.tag # "SomeOk" THEN [ok |-> FALSE, err |-> h]
        ELSE [ok |-> TRUE, target |-> t.val, host |-> h.val,
              used_env_vars |-> <<>>]

\* BuildEnv::new_cross
new_cross(h, t) == [host |-> h, target |-> t, used_env_vars |-> <<>>]

\* BuildEnv::new
new(trip) == [host |-> trip, target |-> trip, used_env_vars |-> <<>>]

----------------------------------------------------------------------------
(* Inputs *)

\* Spec: the triples and base names the calls are made with
Triples   == {s_x_y, s_HOST}
Bases     == {s_CC, s_LD, s_notutf}
MarkNames == {s_CC, s_notutf}

\* SpecChain: triples with and without a hyphen, base names that sort
\* before and after "HOST_", and the names "HOST" and "TARGET" themselves
ChainTriples == {s_x_y, s_HOST, s_TARGET}
ChainBases   == {s_CC, s_LD, s_HOST, s_TARGET, s_notutf}
Values       == {s_val, s_notutf}

EnvOf(names, vals) == UNION {[D -> vals] : D \in SUBSET names}

\* The environments of the crate's tests (most_general, exact_target,
\* underscore_target, v_host, v_target) transposed to the triple "x-y",
\* an empty one, one with a non-UTF-8 value, and three for from_env.
Envs ==
    { (s_CC :> s_val),
      (s_CC :> s_x_y) @@ (s_HOST \o s_us \o s_CC :> s_x_y)
          @@ (s_CC \o s_us \o s_x_y :> s_val),
      (s_CC :> s_x_y) @@ (s_HOST \o s_us \o s_CC :> s_x_y)
          @@ (s_CC \o s_us \o replace(s_x_y) :> s_val),
      (s_CC :> s_x_y) @@ (s_HOST \o s_us \o s_CC :> s_val),
      (s_CC :> s_x_y) @@ (s_HOST \o s_us \o s_CC :> s_x_y)
          @@ (s_TARGET \o s_us \o s_CC :> s_val),
      [n \in {} |-> <<>>],
      (s_CC :> s_notutf) @@ (s_LD \o s_us \o s_x_y :> s_val),
      (s_TARGET :> s_x_y) @@ (s_HOST :> s_x_y) @@ (s_LD :> s_val),
      (s_TARGET :> s_x_y),
      (s_TARGET :> s_x_y) @@ (s_HOST :> s_notutf) }

\* For one base name and one triple: every environment over the names the
\* chain can read for either role
ChainEnvs ==
    UNION { EnvOf({B \o s_us \o t, B \o s_us \o replace(t),
                   s_HOST \o s_us \o B, s_TARGET \o s_us \o B, B}, Values)
            : B \in {B \in ChainBases : IsUtf8(B)}, t \in ChainTriples }

----------------------------------------------------------------------------
(* State machine *)

Start(e) ==
    /\ env = e
    /\ pc = "start"
    /\ built = [by |-> "none", res |-> Unit]
    /\ target = <<>>
    /\ host = <<>>
    /\ used_env_vars = <<>>
    /\ stdout = <<>>
    /\ hist = <<>>

Init == \E e \in Envs : Start(e)

InitChain == \E e \in ChainEnvs : Start(e)

Construct(by, b) ==
    /\ pc = "start"
    /\ pc' = "ready"
    /\ built' = [by |-> by, res |-> Unit]
    /\ target' = b.target
    /\ host' = b.host
    /\ used_env_vars' = b.used_env_vars
    /\ UNCHANGED <<env, stdout, hist>>

New(trip) == Construct("new", new(trip))

NewCross(h, t) == Construct("new_cross", new_cross(h, t))

FromEnv ==
    LET b == from_env(env)
    IN  IF b.ok THEN Construct("from_env", b)
        ELSE /\ pc = "start"
             /\ pc' = "failed"
             /\ built' = [by |-> "from_env", res |-> b.err]
             /\ UNCHANGED <<env, target, host, used_env_vars, stdout, hist>>

\* a call on the constructed BuildEnv: r = [st, v] is what the method did
Call(op, arg, r) ==
    /\ pc' = IF r.st.panicked THEN "panicked" ELSE "ready"
    /\ used_env_vars' = r.st.used_env_vars
    /\ stdout' = r.st.stdout
    /\ hist' = Append(hist, [op |-> op, arg |-> arg,
                             res |-> IF r.st.panicked THEN Panic ELSE r.v,
                             used0 |-> used_env_vars, out0 |-> Len(stdout)])
    /\ UNCHANGED <<env, built, target, host>>

Var(var_base) ==
    /\ pc = "ready"
    /\ Call("var", var_base,
            var(St(used_env_vars, stdout), env, host, target, var_base))

VarStr(var_base) ==
    /\ pc = "ready"
    /\ Call("var_str", var_base,
            var_str(St(used_env_vars, stdout), env, host, target, var_base))

MarkUsed(name) ==
    /\ pc = "ready"
    /\ Call("mark_used", name,
            [st |-> mark_used(St(used_env_vars, stdout), name), v |-> Unit])

UsedEnvVars ==
    /\ pc = "ready"
    /\ Call("used_env_vars", <<>>,
            [st |-> St(used_env_vars, stdout), v |-> Iter(used_env_vars)])

CargoPrintUsedEnvVars ==
    /\ pc = "ready"
    /\ Call("cargo_print_used_env_vars", <<>>,
            [st |-> cargo_print_used_env_vars(St(used_env_vars, stdout)),
             v |-> Unit])

Next ==
    \/ \E trip \in Triples : New(trip)
    \/ \E h \in Triples, t \in Triples : NewCross(h, t)
    \/ FromEnv
    \/ \E B \in Bases : Len(hist) < MaxCalls /\ Var(B)
    \/ \E B \in Bases : Len(hist) < MaxCalls /\ VarStr(B)
    \/ \E n \in MarkNames : Len(hist) < MaxCalls /\ MarkUsed(n)
    \/ Len(hist) < MaxCalls /\ UsedEnvVars
    \/ Len(hist) < MaxCalls /\ CargoPrintUsedEnvVars

Spec == Init /\ [][Next]_vars

\* The shape of the crate's tests: set the environment, construct, resolve
\* one base name, collect used_env_vars()
NextChain ==
    \/ \E trip \in ChainTriples : New(trip)
    \/ \E h \in ChainTriples, t \in ChainTriples : NewCross(h, t)
    \/ FromEnv
    \/ \E B \in ChainBases : hist = <<>> /\ Var(B)
    \/ \E B \in ChainBases : hist = <<>> /\ VarStr(B)
    \/ Len(hist) = 1 /\ UsedEnvVars

SpecChain == InitChain /\ [][NextChain]_vars

----------------------------------------------------------------------------
(* Vocabulary of the properties, written from the documented chain *)

IsSet(name) == name \in DOMAIN env

WithUnderscores(t) == [i \in DOMAIN t |-> IF t[i] = 45 THEN 95 ELSE t[i]]

HasHyphen(t) == \E i \in DOMAIN t : t[i] = 45

HostVar(B)   == s_HOST \o s_us \o B

TargetVar(B) == s_TARGET \o s_us \o B

RoleVar(B)   == IF host = target THEN HostVar(B) ELSE TargetVar(B)

\* the four candidates of base name B, most specific first
Candidates(B) ==
    <<B \o s_us \o target, B \o s_us \o WithUnderscores(target), RoleVar(B), B>>

\* index of the first candidate that is set, 0 when none is
FirstSet(c) ==
    IF \E i \in DOMAIN c : IsSet(c[i])
    THEN CHOOSE i \in DOMAIN c : IsSet(c[i]) /\ \A j \in 1..(i - 1) : ~IsSet(c[j])
    ELSE 0

\* the candidates a resolution tries: up to and including the first set one
Attempted(c) == SubSeq(c, 1, IF FirstSet(c) = 0 THEN Len(c) ELSE FirstSet(c))

RECURSIVE SortSet(_)
SortSet(S) ==
    IF S = {} THEN <<>>
    ELSE LET m == CHOOSE x \in S : \A y \in S \ {x} : Less(x, y)
         IN  <<m>> \o SortSet(S \ {m})

Calls == DOMAIN hist

IsResolve(i) == hist[i].op \in {"var", "var_str"}

Returned(i) == hist[i].res.tag # "Panic"

UsedAfter(i) == IF i = Len(hist) THEN used_env_vars ELSE hist[i + 1].used0

OutAfter(i) == IF i = Len(hist) THEN Len(stdout) ELSE hist[i + 1].out0

\* the lines call i printed, and the names in them
PrintedBy(i) == [k \in 1..(OutAfter(i) - hist[i].out0) |-> stdout[hist[i].out0 + k]]

NamesPrintedBy(i) == [k \in DOMAIN PrintedBy(i) |-> PrintedBy(i)[k][2]]

HintLine(name) == <<"cargo:rerun-if-env-changed=", name>>

\* the variable whose value call i returned (the last one it tried)
FoundBy(i) == NamesPrintedBy(i)[Len(NamesPrintedBy(i))]

Found(i) == hist[i].res.tag \in {"Some", "SomeOk", "SomeErrNotString"}

FirstIs(op) == hist # <<>> /\ hist[1].op = op /\ Returned(1)

----------------------------------------------------------------------------
(* C1 *)

\* C1: whenever var(B) returns, it returns the value of the first candidate
\* of [B_<target>, B_<target with '-' as '_'>, <ROLE>_B, B] that is set in
\* the environment, and it returns None iff none of the four is set.
C1_FirstSetCandidateWins ==
    FirstIs("var") =>
        LET c == Candidates(hist[1].arg)
            k == FirstSet(c)
        IN  /\ (hist[1].res.tag = "None") <=> (\A i \in DOMAIN c : ~IsSet(c[i]))
            /\ k # 0 => hist[1].res = Some(env[c[k]])
            /\ k = 0 => hist[1].res = None

\* var returned the value of the third candidate although the plain name is
\* set too, to a different value
C1_Witness ==
    /\ FirstIs("var")
    /\ LET c == Candidates(hist[1].arg)
       IN  /\ FirstSet(c) = 3
           /\ IsSet(c[4])
           /\ env[c[4]] # env[c[3]]
           /\ hist[1].res = Some(env[c[3]])

----------------------------------------------------------------------------
(* C2 *)

\* C2: after one var(B) on a fresh BuildEnv, used_env_vars holds exactly the
\* names of the candidates tried (the chain up to and including the first
\* set candidate, all four when none is set); each of them was marked once,
\* in chain order, found or not, and no candidate after the first set one
\* was marked.
C2_UsedIsAttempted ==
    FirstIs("var") =>
        LET a == Attempted(Candidates(hist[1].arg))
        IN  /\ Range(UsedAfter(1)) = Range(a)
            /\ NamesPrintedBy(1) = a
            /\ hist[1].used0 = <<>>

\* the second candidate is the first one set, a later one is set as well,
\* and only the first two names are recorded
C2_Witness ==
    /\ FirstIs("var")
    /\ LET c == Candidates(hist[1].arg)
       IN  /\ FirstSet(c) = 2
           /\ IsSet(c[3]) /\ IsSet(c[4])
           /\ c[1] # c[2]
           /\ Range(used_env_vars) = {c[1], c[2]}

----------------------------------------------------------------------------
(* C3 *)

\* C3 (as stated): the third candidate is HOST_B when host = target and
\* TARGET_B otherwise; with host # target a set HOST_B is neither the
\* variable whose value is returned nor recorded, and with host = target
\* the same holds of a set TARGET_B.
C3_OtherRoleNeverMatched ==
    FirstIs("var") =>
        LET B == hist[1].arg
            other == IF host = target THEN TargetVar(B) ELSE HostVar(B)
        IN  /\ Len(NamesPrintedBy(1)) >= 3 =>
                  NamesPrintedBy(1)[3] = (IF host = target THEN HostVar(B)
                                          ELSE TargetVar(B))
            /\ IsSet(other) =>
                  /\ other \notin Range(UsedAfter(1))
                  /\ Found(1) => FoundBy(1) # other

\* C3 (amended): as above, provided the other role's name is not itself the
\* name B_<target> or B_<target with '-' as '_'>.
C3_OtherRoleNeverMatchedUnlessCandidate ==
    FirstIs("var") =>
        LET B == hist[1].arg
            c == Candidates(B)
            other == IF host = target THEN TargetVar(B) ELSE HostVar(B)
        IN  /\ Len(NamesPrintedBy(1)) >= 3 =>
                  NamesPrintedBy(1)[3] = (IF host = target THEN HostVar(B)
                                          ELSE TargetVar(B))
            /\ IsSet(other) /\ other \notin {c[1], c[2]} =>
                  /\ other \notin Range(UsedAfter(1))
                  /\ Found(1) => FoundBy(1) # other

\* cross build: HOST_B and TARGET_B are both set, the value of TARGET_B is
\* returned and HOST_B is not recorded
C3_Witness ==
    /\ FirstIs("var")
    /\ host # target
    /\ LET B == hist[1].arg
       IN  /\ IsSet(HostVar(B)) /\ IsSet(TargetVar(B))
           /\ env[HostVar(B)] # env[TargetVar(B)]
           /\ hist[1].res = Some(env[TargetVar(B)])
           /\ NamesPrintedBy(1) = SubSeq(Candidates(B), 1, 3)
           /\ HostVar(B) \notin Range(used_env_vars)

----------------------------------------------------------------------------
(* C4 *)

OnlyPlainSet(B) ==
    /\ IsSet(B)
    /\ \A i \in 1..3 : ~IsSet(Candidates(B)[i])

PlainThenIter ==
    /\ Len(hist) = 2
    /\ hist[1].op = "var" /\ Returned(1)
    /\ hist[2].op = "used_env_vars"
    /\ host = target
    /\ OnlyPlainSet(hist[1].arg)

\* C4 (as stated): host = target = T and only the plain B set: var(B)
\* returns its value and used_env_vars() yields exactly
\* [B, B_T, B_<T with '-' as '_'>, HOST_B], in that order.
C4_PlainOnlySequence ==
    PlainThenIter =>
        LET B == hist[1].arg
        IN  /\ hist[1].res = Some(env[B])
            /\ hist[2].res.val =
                  <<B, B \o s_us \o target,
                    B \o s_us \o WithUnderscores(target), HostVar(B)>>

\* C4 (amended): var(B) returns the value of B and used_env_vars() yields the
\* distinct names among B, B_T, B_<T with '-' as '_'>, HOST_B in ascending
\* bytewise order; that is the sequence [B, B_T, B_<T with '-' as '_'>,
\* HOST_B] whenever T has a hyphen and B_<T with '-' as '_'> sorts before
\* HOST_B.
C4_PlainOnlySorted ==
    PlainThenIter =>
        LET B == hist[1].arg
            bt == B \o s_us \o target
            bu == B \o s_us \o WithUnderscores(target)
        IN  /\ hist[1].res = Some(env[B])
            /\ hist[2].res.val = SortSet({B, bt, bu, HostVar(B)})
            /\ HasHyphen(target) /\ Less(bu, HostVar(B)) =>
                  hist[2].res.val = <<B, bt, bu, HostVar(B)>>

\* the crate's most_general test: the four names come out in chain-like
\* order for B = "CC"
C4_Witness ==
    /\ PlainThenIter
    /\ hist[1].arg = s_CC
    /\ target = s_x_y
    /\ hist[2].res.val = <<s_CC, s_CC \o s_us \o s_x_y,
                           s_CC \o s_us \o WithUnderscores(s_x_y),
                           HostVar(s_CC)>>

----------------------------------------------------------------------------
(* C5 *)

\* C5: whenever var_str(B) returns, the result is None iff no candidate is
\* set; Some(Ok(text)) when the first set candidate's value is UTF-8;
\* Some(Err(NotString)) with key B and the raw value when it is not; and in
\* the Err case used_env_vars holds the names var(B) tries, the found name
\* included.
C5_ThreeOutcomes ==
    FirstIs("var_str") =>
        LET B == hist[1].arg
            c == Candidates(B)
            k == FirstSet(c)
            r == hist[1].res
        IN  /\ r.tag \in {"None", "SomeOk", "SomeErrNotString"}
            /\ (r.tag = "None") <=> (k = 0)
            /\ k # 0 /\ IsUtf8(env[c[k]]) => r = SomeOk(env[c[k]])
            /\ k # 0 /\ ~IsUtf8(env[c[k]]) =>
                  /\ r = SomeErrNotString(B, env[c[k]])
                  /\ Range(UsedAfter(1)) = Range(Attempted(c))
                  /\ c[k] \in Range(UsedAfter(1))

\* var_str found the second candidate, whose value is not UTF-8, while the
\* plain name holds a proper text value
C5_Witness ==
    /\ FirstIs("var_str")
    /\ LET c == Candidates(hist[1].arg)
       IN  /\ FirstSet(c) = 2
           /\ IsSet(c[4]) /\ IsUtf8(env[c[4]])
           /\ hist[1].res.tag = "SomeErrNotString"
           /\ hist[1].res.key = hist[1].arg
           /\ c[2] \in Range(used_env_vars)

----------------------------------------------------------------------------
(* C6 *)

OnlyResolves == \A i \in Calls : IsResolve(i) /\ Returned(i)

Resolved == {hist[i].arg : i \in Calls}

\* C6: after any sequence of var / var_str calls the usage sequence is the
\* ascending sequence of the names tried for the set of base names resolved,
\* whatever the order and number of the calls; a call with a base name
\* already resolved leaves used_env_vars as it was.
C6_UsageDependsOnBaseSet ==
    OnlyResolves =>
        /\ used_env_vars =
              SortSet(UNION {Range(Attempted(Candidates(B))) : B \in Resolved})
        /\ \A i \in Calls, j \in Calls :
              i < j /\ hist[i].arg = hist[j].arg => UsedAfter(j) = hist[j].used0

\* two base names resolved, one of them twice, the first call not being the
\* repeated one's last
C6_Witness ==
    /\ OnlyResolves
    /\ Len(hist) = 3
    /\ hist[1].arg = hist[3].arg
    /\ hist[2].arg # hist[1].arg
    /\ Len(used_env_vars) >= 5

----------------------------------------------------------------------------
(* C7 *)

\* C7: used_env_vars is empty right after new, new_cross or from_env, and
\* no step of any operation removes a name from it.
C7_UsedOnlyGrows ==
    /\ [][pc = "start" /\ pc' = "ready" => used_env_vars' = <<>>]_vars
    /\ [][Range(used_env_vars) \subseteq Range(used_env_vars')]_vars

\* a BuildEnv made by from_env that has since recorded names, TARGET and
\* HOST not among them
C7_Witness ==
    /\ built.by = "from_env"
    /\ pc = "ready"
    /\ Len(hist) >= 2
    /\ Len(used_env_vars) > Len(hist[Len(hist)].used0)
    /\ hist[Len(hist)].used0 # <<>>
    /\ s_TARGET \notin Range(used_env_vars)

----------------------------------------------------------------------------
(* C8 *)

NoBulkEmission == \A i \in Calls : hist[i].op # "cargo_print_used_env_vars"

\* C8: used_env_vars changes only through mark_used, which also prints
\* "cargo:rerun-if-env-changed=<name>": before any cargo_print_used_env_vars
\* a name is recorded iff its hint line has been printed; a call that
\* returns prints one line per name it marks; and a var / var_str call
\* prints the hints of the candidates it tried, in chain order.
C8_RecordedIffHinted ==
    /\ NoBulkEmission =>
          Range(stdout) = {HintLine(n) : n \in Range(used_env_vars)}
    /\ \A i \in Calls :
          /\ IsResolve(i) /\ Returned(i) =>
                PrintedBy(i) =
                   [k \in DOMAIN Attempted(Candidates(hist[i].arg)) |->
                       HintLine(Attempted(Candidates(hist[i].arg))[k])]
          /\ hist[i].op = "mark_used" /\ Returned(i) =>
                /\ PrintedBy(i) = <<HintLine(hist[i].arg)>>
                /\ hist[i].arg \in Range(UsedAfter(i))
          /\ hist[i].op \in {"used_env_vars", "cargo_print_used_env_vars"} =>
                UsedAfter(i) = hist[i].used0
          /\ Range(UsedAfter(i)) \ Range(hist[i].used0)
                \subseteq {PrintedBy(i)[k][2] : k \in DOMAIN PrintedBy(i)}

\* a base name resolved twice: the second call prints its hints again while
\* recording nothing new
C8_Witness ==
    /\ NoBulkEmission
    /\ Len(hist) >= 2
    /\ hist[1].op = "var" /\ hist[2].op = "var"
    /\ hist[1].arg = hist[2].arg
    /\ Returned(2)
    /\ Len(PrintedBy(2)) >= 2
    /\ UsedAfter(2) = hist[2].used0

----------------------------------------------------------------------------
(* C9 *)

\* C9 (as stated): for every base name, UTF-8 or not, var and var_str return
\* an outcome, every candidate they tried is recorded, and the BuildEnv
\* stays usable.
C9_ResolveAlwaysReturns ==
    \A i \in Calls :
        IsResolve(i) =>
            /\ Returned(i)
            /\ Range(Attempted(Candidates(hist[i].arg))) \subseteq Range(UsedAfter(i))
            /\ i = Len(hist) => pc = "ready"

\* C9 (amended): for every base name that is UTF-8, var and var_str return
\* an outcome (a NotString error included), every candidate they tried is
\* recorded, and the BuildEnv stays usable; for a base name that is not
\* UTF-8 the call panics in mark_used at the first candidate, having
\* recorded and printed nothing.
C9_ResolveReturnsForTextNames ==
    \A i \in Calls :
        IsResolve(i) =>
            /\ IsUtf8(hist[i].arg) =>
                  /\ Returned(i)
                  /\ Range(Attempted(Candidates(hist[i].arg)))
                        \subseteq Range(UsedAfter(i))
                  /\ i = Len(hist) => pc = "ready"
            /\ ~IsUtf8(hist[i].arg) =>
                  /\ ~Returned(i)
                  /\ i = Len(hist) /\ pc = "panicked"
                  /\ UsedAfter(i) = hist[i].used0
                  /\ PrintedBy(i) = <<>>

\* a var_str that returned a NotString error, followed by a resolution of
\* another base name that found a value
C9_Witness ==
    \E i \in Calls, j \in Calls :
        /\ i < j
        /\ hist[i].op = "var_str" /\ hist[i].res.tag = "SomeErrNotString"
        /\ FoundBy(i) \in Range(UsedAfter(i))
        /\ IsResolve(j) /\ hist[j].arg # hist[i].arg
        /\ hist[j].res.tag \in {"Some", "SomeOk"}
        /\ pc = "ready"

----------------------------------------------------------------------------
(* C10 *)

Ascending(s) == \A i \in 1..(Len(s) - 1) : Less(s[i], s[i + 1])

\* C10: every recorded name is UTF-8, so cargo_print_used_env_vars never
\* panics: it prints exactly one hint line per recorded name, in ascending
\* order, and leaves used_env_vars unchanged.
C10_BulkEmissionNeverPanics ==
    /\ \A n \in Range(used_env_vars) : IsUtf8(n)
    /\ \A i \in Calls :
          hist[i].op = "cargo_print_used_env_vars" =>
              /\ Returned(i)
              /\ PrintedBy(i) = [k \in DOMAIN hist[i].used0 |-> HintLine(hist[i].used0[k])]
              /\ Ascending(hist[i].used0)
              /\ UsedAfter(i) = hist[i].used0

\* a bulk emission of four names that were recorded in an order other than
\* the ascending one
C10_Witness ==
    /\ Len(hist) >= 2
    /\ hist[Len(hist)].op = "cargo_print_used_env_vars"
    /\ Returned(Len(hist))
    /\ Len(PrintedBy(Len(hist))) = 4
    /\ hist[1].op = "var"
    /\ NamesPrintedBy(1) # hist[2].used0

====
